---- MODULE Spec2Model ----
(***************************************************************************)
(* Model of library_manager.py: the LibraryManager store (add, remove,     *)
(* search, statistics, save, load) over Streamlit session state and the    *)
(* storage file "library.txt", and the pages of main() that drive it.      *)
(*                                                                         *)
(* Python list positions are zero-based; the sequences below are one-based,*)
(* so Python position i is element i + 1.                                  *)
(***************************************************************************)
EXTENDS Integers, Sequences, FiniteSets, TLC

VARIABLES
    file,           \* library.txt: whether it exists and its text, as JSON tokens
    session_state,  \* per browser session: is 'library' in st.session_state, and its value
    now,            \* datetime.now().year
    op,             \* the last script run: the call made, its arguments and what it returned
    lastWriter,     \* history: the session whose save_library ran last (0: none)
    saved,          \* history: the list handed to the last save_library
    degraded        \* history: sessions started from an unparsable file, not yet mutated

vars == <<file, session_state, now, op, lastWriter, saved, degraded>>

(***************************************************************************)
(* Bounds                                                                  *)
(***************************************************************************)
MaxLen == 3
MaxNow == 3
MaxSharedLen == 2

(* number_input(min_value=1, ...) *)
MinYear == 1

Sessions == {1, 2}

(***************************************************************************)
(* Text.  A str is a sequence of characters; the characters are named.     *)
(* "SIGMA" is U+03A3, "sigma" U+03C3, "fsigma" U+03C2 (final sigma).       *)
(***************************************************************************)
NonAscii == {"SIGMA", "sigma", "fsigma"}

Cased(c) == c \in {"a", "A", "b", "B", "SIGMA", "sigma", "fsigma"}

LowerChar(c) ==
    CASE c = "A" -> "a"
      [] c = "B" -> "b"
      [] c = "SIGMA" -> "sigma"
      [] OTHER -> c

(* str.lower(): per-character lowercase mapping, except that U+03A3 maps   *)
(* to the final form when a cased letter precedes it and none follows.     *)
StrLower(str) ==
    [i \in 1..Len(str) |->
        IF str[i] = "SIGMA"
        THEN IF (i > 1 /\ Cased(str[i - 1])) /\ ~(i < Len(str) /\ Cased(str[i + 1]))
             THEN "fsigma"
             ELSE "sigma"
        ELSE LowerChar(str[i])]

(* sub in str *)
StrIn(sub, str) ==
    \E i \in 0..(Len(str) - Len(sub)) : SubSeq(str, i + 1, i + Len(sub)) = sub

(***************************************************************************)
(* Books and lists                                                         *)
(***************************************************************************)
Book(title, author, year, genre, read_status) ==
    [title |-> title, author |-> author, year |-> year, genre |-> genre, read |-> read_status]

(* list.insert(0, book) instead of list.append(book) *)
ListPrepend(lib, book) == <<book>> \o lib

(* list.append(book) *)
ListAppend(lib, book) == Append(lib, book)

(* list.pop() without the index: drops the last element *)
ListPopLast(lib, index) ==
    IF Len(lib) = 0
    THEN [list |-> lib, exc |-> "IndexError"]
    ELSE [list |-> SubSeq(lib, 1, Len(lib) - 1), exc |-> "none"]

(* list.pop(index): a negative index counts from the end; an index outside *)
(* the list raises IndexError                                              *)
ListPop(lib, index) ==
    LET k == IF index < 0 THEN index + Len(lib) ELSE index
    IN  IF k < 0 \/ k >= Len(lib)
        THEN [list |-> lib, exc |-> "IndexError"]
        ELSE [list |-> SubSeq(lib, 1, k) \o SubSeq(lib, k + 2, Len(lib)), exc |-> "none"]

(***************************************************************************)
(* JSON text: a sequence of tokens.                                        *)
(***************************************************************************)
Tok(kind) == [k |-> kind, s |-> <<>>, n |-> 0]
StrTok(str) == [k |-> "string", s |-> str, n |-> 0]
NumTok(num) == [k |-> "number", s |-> <<>>, n |-> num]

(* ensure_ascii: a non-ASCII character is written as a \uXXXX escape *)
EscapeChar(c) ==
    CASE c = "SIGMA" -> "\\u03a3"
      [] c = "sigma" -> "\\u03c3"
      [] c = "fsigma" -> "\\u03c2"
      [] OTHER -> c

UnescapeChar(c) ==
    CASE c = "\\u03a3" -> "SIGMA"
      [] c = "\\u03c3" -> "sigma"
      [] c = "\\u03c2" -> "fsigma"
      [] OTHER -> c

(* an encoder that replaces what it cannot write by "?" *)
EscapeReplace(str) == [i \in 1..Len(str) |-> IF str[i] \in NonAscii THEN "?" ELSE str[i]]

Escape(str) == [i \in 1..Len(str) |-> EscapeChar(str[i])]

Unescape(str) == [i \in 1..Len(str) |-> UnescapeChar(str[i])]

(* one dict of the list: {"title": .., "author": .., "year": .., "genre": .., "read": ..} *)
DumpBook(b) ==
    << Tok("{"),
       StrTok(<<"title">>),  Tok(":"), StrTok(Escape(b.title)),  Tok(","),
       StrTok(<<"author">>), Tok(":"), StrTok(Escape(b.author)), Tok(","),
       StrTok(<<"year">>),   Tok(":"), NumTok(b.year),           Tok(","),
       StrTok(<<"genre">>),  Tok(":"), StrTok(Escape(b.genre)),  Tok(","),
       StrTok(<<"read">>),   Tok(":"), Tok(IF b.read THEN "true" ELSE "false"),
       Tok("}") >>

(* tokens of one dumped book *)
BookToks == Len(DumpBook(Book(<<>>, <<>>, 0, <<>>, FALSE)))

RECURSIVE DumpItems(_)
DumpItems(lib) ==
    IF lib = <<>> THEN <<>>
    ELSE DumpBook(Head(lib))
         \o (IF Len(lib) > 1 THEN <<Tok(",")>> ELSE <<>>)
         \o DumpItems(Tail(lib))

(* json.dump(list, file) *)
json_dump(lib) == <<Tok("[")>> \o DumpItems(lib) \o <<Tok("]")>>

(* the dict that starts at token i, if one does *)
ParseBook(text, i) ==
    IF i + BookToks - 1 > Len(text)
    THEN [ok |-> FALSE, book |-> Book(<<>>, <<>>, 0, <<>>, FALSE)]
    ELSE LET t(j) == text[i + j - 1]
             b == Book(Unescape(t(4).s), Unescape(t(8).s), t(12).n, Unescape(t(16).s),
                       t(20).k = "true")
         IN  [ok |-> /\ t(4).k = "string" /\ t(8).k = "string" /\ t(12).k = "number"
                     /\ t(16).k = "string" /\ t(20).k \in {"true", "false"}
                     /\ \A j \in {1, 2, 3, 5, 6, 7, 9, 10, 11, 13, 14, 15, 17, 18, 19, 21} :
                            t(j) = DumpBook(b)[j],
              book |-> b]

RECURSIVE ParseItems(_, _, _)
ParseItems(text, i, acc) ==
    LET r == ParseBook(text, i)
        j == i + BookToks
    IN  IF ~r.ok \/ j > Len(text) THEN [ok |-> FALSE, value |-> <<>>]
        ELSE IF text[j] = Tok("]")
             THEN IF j = Len(text) THEN [ok |-> TRUE, value |-> Append(acc, r.book)]
                                   ELSE [ok |-> FALSE, value |-> <<>>]
        ELSE IF text[j] = Tok(",") THEN ParseItems(text, j + 1, Append(acc, r.book))
        ELSE [ok |-> FALSE, value |-> <<>>]

(* json.load(file) on the documents this program writes: a list of book    *)
(* dicts gives the list; an empty, truncated or over-long text raises      *)
(* JSONDecodeError (ok = FALSE).                                           *)
json_load(text) ==
    IF Len(text) < 2 \/ text[1] # Tok("[") THEN [ok |-> FALSE, value |-> <<>>]
    ELSE IF text[2] = Tok("]")
         THEN IF Len(text) = 2 THEN [ok |-> TRUE, value |-> <<>>]
                               ELSE [ok |-> FALSE, value |-> <<>>]
    ELSE ParseItems(text, 2, <<>>)

NoFile == [exists |-> FALSE, text |-> <<>>]

(* open(filename, 'a'): the dump goes after what the file already holds *)
save_library_append(lib, f) ==
    [exists |-> TRUE, text |-> f.text \o json_dump(lib)]

(* a save that keeps the books the file holds and the list does not *)
save_library_merge(lib, f) ==
    LET old == IF f.exists /\ json_load(f.text).ok THEN json_load(f.text).value ELSE <<>>
        inList(b) == \E i \in 1..Len(lib) : lib[i] = b
        keep(b) == ~inList(b)
    IN  [exists |-> TRUE, text |-> json_dump(SelectSeq(old, keep) \o lib)]

(* save_library: open(filename, 'w') truncates, json.dump writes the list *)
save_library(lib, f) ==
    [exists |-> TRUE, text |-> json_dump(lib)]

(* load_library: the new value of st.session_state.library and the message shown *)
load_library(lib, f) ==
    IF f.exists
    THEN LET r == json_load(f.text)
         IN  IF r.ok THEN [library |-> r.value, msg |-> "none"]
             ELSE [library |-> lib,
                   msg |-> "Error loading library file. Starting with an empty library."]
    ELSE [library |-> lib,
          msg |-> "No existing library file found. Starting with an empty library."]

NoSession == [present |-> FALSE, library |-> <<>>]

(* __init__ that loads on every script run *)
LibraryManager_init_always(ss, f) ==
    LET r == load_library(<<>>, f)
    IN  [present |-> TRUE, library |-> r.library, msg |-> r.msg, fresh |-> ~ss.present]

(* LibraryManager.__init__ *)
LibraryManager_init(ss, f) ==
    IF ~ss.present
    THEN LET r == load_library(<<>>, f)
         IN  [present |-> TRUE, library |-> r.library, msg |-> r.msg, fresh |-> TRUE]
    ELSE [present |-> TRUE, library |-> ss.library, msg |-> "none", fresh |-> FALSE]

(***************************************************************************)
(* The store's operations, on the list lib and the file f                  *)
(***************************************************************************)
add_book(lib, f, title, author, year, genre, read_status) ==
    LET new == ListAppend(lib, Book(title, author, year, genre, read_status))
    IN  [library |-> new, file |-> save_library(new, f), ret |-> TRUE, exc |-> "none"]

(* the check without its lower bound *)
IndexInRangeNoLower(index, n) == index < n

(* 0 <= index < len(st.session_state.library) *)
IndexInRange(index, n) == 0 <= index /\ index < n

remove_book(lib, f, index) ==
    IF IndexInRange(index, Len(lib))
    THEN LET r == ListPop(lib, index)
         IN  IF r.exc # "none"
             THEN [library |-> lib, file |-> f, ret |-> FALSE, exc |-> r.exc]
             ELSE [library |-> r.list, file |-> save_library(r.list, f),
                   ret |-> TRUE, exc |-> "none"]
    ELSE [library |-> lib, file |-> f, ret |-> FALSE, exc |-> "none"]

search_book(lib, search_term, search_by) ==
    LET term == StrLower(search_term)
        byTitle(b) == StrIn(term, StrLower(b.title))
        byAuthor(b) == StrIn(term, StrLower(b.author))
    IN  IF search_by = "Title" THEN SelectSeq(lib, byTitle) ELSE SelectSeq(lib, byAuthor)

(***************************************************************************)
(* Fractions stand for Python's floats: <<num, den>> in lowest terms.      *)
(***************************************************************************)
RECURSIVE GCD(_, _)
GCD(a, b) == IF b = 0 THEN a ELSE GCD(b, a % b)

Frac(num, den) ==
    LET g == GCD(num, den) IN [num |-> num \div g, den |-> den \div g]

(* sum(1 for book in library if book["read"]) *)
RECURSIVE CountRead(_)
CountRead(lib) ==
    IF lib = <<>> THEN 0
    ELSE (IF Head(lib).read THEN 1 ELSE 0) + CountRead(Tail(lib))

(* the ratio, not multiplied by 100 *)
get_statistics_ratio(lib) ==
    LET total_books == Len(lib)
        read_books == CountRead(lib)
        percentage_read ==
            IF total_books > 0 THEN Frac(read_books, total_books) ELSE Frac(0, 1)
    IN  [total_books |-> total_books, read_books |-> read_books,
         percentage_read |-> percentage_read]

get_statistics(lib) ==
    LET total_books == Len(lib)
        read_books == CountRead(lib)
        ratio == Frac(read_books, total_books)
        percentage_read ==
            IF total_books > 0 THEN Frac(ratio.num * 100, ratio.den) ELSE Frac(0, 1)
    IN  [total_books |-> total_books, read_books |-> read_books,
         percentage_read |-> percentage_read]

(***************************************************************************)
(* The record of a script run                                              *)
(***************************************************************************)
NoStats == [total_books |-> 0, read_books |-> 0, percentage_read |-> Frac(0, 1)]

NoOp ==
    [name |-> "none", s |-> 0, fresh |-> FALSE,
     title |-> <<>>, author |-> <<>>, year |-> 0, genre |-> <<>>, read |-> FALSE,
     index |-> 0, term |-> <<>>, by |-> "",
     ret |-> FALSE, result |-> <<>>, stats |-> NoStats, msg |-> "none", exc |-> "none"]

(* a crash between open(filename, 'w') and the end of json.dump leaves an  *)
(* empty or a truncated file                                               *)
TruncatedFiles ==
    { [exists |-> TRUE, text |-> <<>>],
      [exists |-> TRUE, text |-> <<Tok("["), Tok("{")>>] }

Init ==
    /\ file \in {NoFile} \cup TruncatedFiles
    /\ session_state = [s \in Sessions |-> NoSession]
    /\ now = MinYear
    /\ op = NoOp
    /\ lastWriter = 0
    /\ saved = <<>>
    /\ degraded = {}

Unparsable(f) == f.exists /\ ~json_load(f.text).ok

(* every script run starts with manager = LibraryManager() *)
Manager(s) == LibraryManager_init(session_state[s], file)

Degrade(s) ==
    IF Manager(s).fresh /\ Unparsable(file) THEN degraded \cup {s} ELSE degraded

(* main(): a script run that only renders a page *)
Run(s) ==
    LET m == Manager(s)
    IN  /\ session_state' = [session_state EXCEPT ![s] = [present |-> TRUE, library |-> m.library]]
        /\ op' = [NoOp EXCEPT !.name = "run", !.s = s, !.fresh = m.fresh, !.msg = m.msg]
        /\ degraded' = Degrade(s)
        /\ UNCHANGED <<file, now, lastWriter, saved>>

(* the browser session ends: its st.session_state is discarded *)
Close(s) ==
    /\ session_state[s].present
    /\ session_state' = [session_state EXCEPT ![s] = NoSession]
    /\ op' = [NoOp EXCEPT !.name = "close", !.s = s]
    /\ degraded' = degraded \ {s}
    /\ UNCHANGED <<file, now, lastWriter, saved>>

(* manager.add_book(title, author, year, genre, read_status) *)
AddBook(s, title, author, year, genre, read_status) ==
    /\ session_state[s].present
    /\ Len(session_state[s].library) < MaxLen
    /\ LET m == Manager(s)
           r == add_book(m.library, file, title, author, year, genre, read_status)
       IN  /\ session_state' = [session_state EXCEPT ![s] = [present |-> TRUE, library |-> r.library]]
           /\ file' = r.file
           /\ op' = [NoOp EXCEPT !.name = "add_book", !.s = s, !.fresh = m.fresh,
                                 !.title = title, !.author = author, !.year = year,
                                 !.genre = genre, !.read = read_status,
                                 !.ret = r.ret, !.exc = r.exc]
           /\ lastWriter' = s
           /\ saved' = r.library
           /\ degraded' = degraded \ {s}
           /\ UNCHANGED now

(* manager.remove_book(index) *)
RemoveBook(s, index) ==
    /\ session_state[s].present
    /\ LET m == Manager(s)
           r == remove_book(m.library, file, index)
       IN  /\ session_state' = [session_state EXCEPT ![s] = [present |-> TRUE, library |-> r.library]]
           /\ file' = r.file
           /\ op' = [NoOp EXCEPT !.name = "remove_book", !.s = s, !.fresh = m.fresh,
                                 !.index = index, !.ret = r.ret, !.exc = r.exc]
           /\ lastWriter' = IF r.ret THEN s ELSE lastWriter
           /\ saved' = IF r.ret THEN r.library ELSE saved
           /\ degraded' = IF r.ret THEN degraded \ {s} ELSE degraded
           /\ UNCHANGED now

(* manager.search_book(search_term, search_by) *)
SearchBook(s, search_term, search_by) ==
    /\ session_state[s].present
    /\ LET m == Manager(s)
       IN  /\ session_state' = [session_state EXCEPT ![s] = [present |-> TRUE, library |-> m.library]]
           /\ op' = [NoOp EXCEPT !.name = "search_book", !.s = s, !.fresh = m.fresh,
                                 !.term = search_term, !.by = search_by,
                                 !.result = search_book(m.library, search_term, search_by)]
           /\ UNCHANGED <<file, now, lastWriter, saved, degraded>>

(* manager.get_statistics() *)
GetStatistics(s) ==
    /\ session_state[s].present
    /\ LET m == Manager(s)
       IN  /\ session_state' = [session_state EXCEPT ![s] = [present |-> TRUE, library |-> m.library]]
           /\ op' = [NoOp EXCEPT !.name = "get_statistics", !.s = s, !.fresh = m.fresh,
                                 !.stats = get_statistics(m.library)]
           /\ UNCHANGED <<file, now, lastWriter, saved, degraded>>

(***************************************************************************)
(* The store driven directly, one session                                  *)
(***************************************************************************)
Titles == {<<>>, <<"a">>, <<"A", "SIGMA">>}
Authors == {<<"b">>}
Years == {MinYear}
Genres == {<<>>}
Terms == {<<>>, <<"a">>, <<"A">>, <<"B">>, <<"SIGMA">>, <<"a", "b">>}
Fields == {"Title", "Author"}
Indexes == (0 - 1)..(MaxLen + 1)

Next ==
    \/ Run(1)
    \/ Close(1)
    \/ \E t \in Titles, a \in Authors, y \in Years, g \in Genres, r \in BOOLEAN :
          AddBook(1, t, a, y, g, r)
    \/ \E i \in Indexes : RemoveBook(1, i)
    \/ \E t \in Terms, f \in Fields : SearchBook(1, t, f)
    \/ GetStatistics(1)

Spec == Init /\ [][Next]_vars

(***************************************************************************)
(* The pages of main(), one session                                        *)
(***************************************************************************)

(* "title or author" in place of "title and author" *)
FormValidEither(title, author) == title # <<>> \/ author # <<>>

(* if title and author: *)
FormValid(title, author) == title # <<>> /\ author # <<>>

(* st.number_input("Publication Year", min_value=1, max_value=datetime.now().year) *)
YearInput(year_now) == MinYear..year_now

(* Add Book page: the form is submitted *)
SubmitAddBook(s, title, author, year, genre, read_status) ==
    /\ session_state[s].present
    /\ year \in YearInput(now)
    /\ LET m == Manager(s)
           valid == FormValid(title, author)
           r == IF valid
                THEN add_book(m.library, file, title, author, year, genre, read_status)
                ELSE [library |-> m.library, file |-> file, ret |-> FALSE, exc |-> "none"]
       IN  /\ valid => Len(m.library) < MaxLen
           /\ session_state' = [session_state EXCEPT ![s] = [present |-> TRUE, library |-> r.library]]
           /\ file' = r.file
           /\ op' = [NoOp EXCEPT !.name = "Add Book", !.s = s, !.fresh = m.fresh,
                                 !.title = title, !.author = author, !.year = year,
                                 !.genre = genre, !.read = read_status,
                                 !.ret = r.ret, !.exc = r.exc,
                                 !.msg = IF valid THEN "added to your library!"
                                                  ELSE "Title and author are required!"]
           /\ lastWriter' = IF valid THEN s ELSE lastWriter
           /\ saved' = IF valid THEN r.library ELSE saved
           /\ degraded' = IF valid THEN degraded \ {s} ELSE degraded
           /\ UNCHANGED now

(* View Library page: the Remove button of row i is pressed *)
ClickRemove(s, i) ==
    /\ session_state[s].present
    /\ i \in 0..(Len(session_state[s].library) - 1)
    /\ LET m == Manager(s)
           r == remove_book(m.library, file, i)
       IN  /\ session_state' = [session_state EXCEPT ![s] = [present |-> TRUE, library |-> r.library]]
           /\ file' = r.file
           /\ op' = [NoOp EXCEPT !.name = "View Library", !.s = s, !.fresh = m.fresh,
                                 !.index = i, !.ret = r.ret, !.exc = r.exc,
                                 !.msg = IF r.ret THEN "Book removed successfully!" ELSE "none"]
           /\ lastWriter' = IF r.ret THEN s ELSE lastWriter
           /\ saved' = IF r.ret THEN r.library ELSE saved
           /\ degraded' = IF r.ret THEN degraded \ {s} ELSE degraded
           /\ UNCHANGED now

(* Search Books page *)
SearchPage(s, search_by, search_term) ==
    /\ session_state[s].present
    /\ LET m == Manager(s)
           results == IF search_term # <<>>
                      THEN search_book(m.library, search_term, search_by) ELSE <<>>
       IN  /\ session_state' = [session_state EXCEPT ![s] = [present |-> TRUE, library |-> m.library]]
           /\ op' = [NoOp EXCEPT !.name = "Search Books", !.s = s, !.fresh = m.fresh,
                                 !.term = search_term, !.by = search_by, !.result = results,
                                 !.msg = IF search_term # <<>> /\ results = <<>>
                                         THEN "No books found matching" ELSE "none"]
           /\ UNCHANGED <<file, now, lastWriter, saved, degraded>>

(* Statistics page *)
StatisticsPage(s) ==
    /\ session_state[s].present
    /\ LET m == Manager(s)
       IN  /\ session_state' = [session_state EXCEPT ![s] = [present |-> TRUE, library |-> m.library]]
           /\ op' = [NoOp EXCEPT !.name = "Statistics", !.s = s, !.fresh = m.fresh,
                                 !.stats = get_statistics(m.library)]
           /\ UNCHANGED <<file, now, lastWriter, saved, degraded>>

(* the calendar year advances *)
Tick ==
    /\ now < MaxNow
    /\ now' = now + 1
    /\ op' = [NoOp EXCEPT !.name = "tick"]
    /\ UNCHANGED <<file, session_state, lastWriter, saved, degraded>>

FormTitles == {<<>>, <<"a">>}
FormAuthors == {<<>>, <<"b">>}
FormTerms == {<<>>, <<"A">>}
FormReads == {FALSE}

NextUI ==
    \/ Run(1)
    \/ Close(1)
    \/ \E t \in FormTitles, a \in FormAuthors, y \in MinYear..MaxNow, g \in Genres, r \in FormReads :
          SubmitAddBook(1, t, a, y, g, r)
    \/ \E i \in 0..(MaxLen - 1) : ClickRemove(1, i)
    \/ \E f \in Fields, t \in FormTerms : SearchPage(1, f, t)
    \/ StatisticsPage(1)
    \/ Tick

SpecUI == Init /\ [][NextUI]_vars

(***************************************************************************)
(* Two sessions on the same file, each script run atomic                   *)
(***************************************************************************)
SharedTitles == {<<"a">>, <<"A", "SIGMA">>}

NextMulti ==
    \E s \in Sessions :
        \/ Run(s)
        \/ Close(s)
        \/ /\ Len(session_state[s].library) < MaxSharedLen
           /\ \E t \in SharedTitles : AddBook(s, t, <<"b">>, MinYear, <<>>, FALSE)
        \/ \E i \in Indexes : RemoveBook(s, i)

SpecMulti == Init /\ [][NextMulti]_vars

(***************************************************************************)
(* Properties                                                              *)
(***************************************************************************)
Lib(s) == session_state[s].library

Mutated(o) == o.name \in {"add_book", "remove_book"} /\ o.ret

(* C1: add_book returns success, makes the library exactly one entry       *)
(* longer, puts the new book {title, author, year, genre, read} last and   *)
(* leaves every earlier entry at its position with its content; a          *)
(* duplicate of an existing title is accepted like any other book.         *)
C1_AddAppendsLast ==
    [][op'.name = "add_book" =>
        LET old == session_state[op'.s].library
            new == session_state'[op'.s].library
        IN  /\ op'.ret = TRUE
            /\ op'.exc = "none"
            /\ Len(new) = Len(old) + 1
            /\ new[Len(new)] = [title |-> op'.title, author |-> op'.author, year |-> op'.year,
                                genre |-> op'.genre, read |-> op'.read]
            /\ \A j \in 1..Len(old) : new[j] = old[j]]_vars

(* an add has just put a second book with the title of a different first book *)
C1_Witness ==
    /\ op.name = "add_book" /\ op.ret
    /\ Len(Lib(1)) = 2
    /\ Lib(1)[1].title = Lib(1)[2].title
    /\ Lib(1)[1] # Lib(1)[2]
    /\ Lib(1)[2].title = op.title

(* C2: remove_book(i) with 0 <= i < n returns success and leaves n - 1     *)
(* entries at the contiguous positions 0..n-2: those before i unchanged,   *)
(* each one after i moved down by one.                                     *)
C2_RemoveShiftsDown ==
    [][(op'.name = "remove_book"
        /\ 0 <= op'.index /\ op'.index < Len(session_state[op'.s].library)) =>
        LET old == session_state[op'.s].library
            new == session_state'[op'.s].library
            i == op'.index
            n == Len(old)
        IN  /\ op'.ret = TRUE
            /\ op'.exc = "none"
            /\ DOMAIN new = 1..(n - 1)
            /\ \A j \in 0..(n - 1) : j < i => new[j + 1] = old[j + 1]
            /\ \A j \in 0..(n - 1) : j > i => new[j] = old[j + 1]]_vars

(* a remove at position 1 of three left the former first and third books *)
C2_Witness ==
    /\ op.name = "remove_book" /\ op.ret /\ op.index = 1
    /\ Len(Lib(1)) = 2
    /\ Lib(1)[1] # Lib(1)[2]

(* C3: remove_book(i) with i < 0 or i >= n returns failure, raises         *)
(* nothing, leaves the library as it was and does not write the file.      *)
C3_RemoveOutOfRange ==
    [][(op'.name = "remove_book"
        /\ (op'.index < 0 \/ op'.index >= Len(session_state[op'.s].library))) =>
        /\ op'.ret = FALSE
        /\ op'.exc = "none"
        /\ session_state'[op'.s].library = session_state[op'.s].library
        /\ file' = file]_vars

(* a remove with a negative index has failed on a library of two *)
C3_Witness ==
    /\ op.name = "remove_book" /\ ~op.ret /\ op.index < 0
    /\ Len(Lib(1)) = 2

UpperChar(c) ==
    CASE c = "a" -> "A"
      [] c = "b" -> "B"
      [] c = "sigma" -> "SIGMA"
      [] c = "fsigma" -> "SIGMA"
      [] OTHER -> c

(* the same character, or the upper-case and a lower-case form of one letter *)
SameLetter(c, d) == c = d \/ UpperChar(c) = d \/ c = UpperChar(d)

(* str has a run of characters that is sub, letter case aside *)
ContainsIgnoringCase(sub, str) ==
    \E i \in 0..(Len(str) - Len(sub)) :
        \A k \in 1..Len(sub) : SameLetter(sub[k], str[i + k])

(* C4: search_book(term, "Title") returns, in library order, exactly the   *)
(* books whose title contains term when letter case is ignored;            *)
(* search_book(term, "Author") the same over the author; an empty term     *)
(* returns every book.                                                     *)
C4_SearchIgnoresCase ==
    op.name = "search_book" =>
        LET inTitle(b) == ContainsIgnoringCase(op.term, b.title)
            inAuthor(b) == ContainsIgnoringCase(op.term, b.author)
        IN  /\ op.by = "Title" => op.result = SelectSeq(Lib(op.s), inTitle)
            /\ op.by = "Author" => op.result = SelectSeq(Lib(op.s), inAuthor)
            /\ op.term = <<>> => op.result = Lib(op.s)

(* C5: get_statistics returns total = library length, read_count = number  *)
(* of entries with read = true, between 0 and total, and percent_read =    *)
(* read_count / total * 100, or 0 when total = 0; the empty library gives  *)
(* {0, 0, 0}, one read and one unread book give {2, 1, 50}.                *)
C5_Statistics ==
    op.name = "get_statistics" =>
        LET lib == Lib(op.s)
            nread == Cardinality({i \in 1..Len(lib) : lib[i].read})
            st == op.stats
        IN  /\ st.total_books = Len(lib)
            /\ st.read_books = nread
            /\ 0 <= st.read_books /\ st.read_books <= st.total_books
            /\ st.percentage_read.den > 0
            /\ st.total_books > 0 =>
                   st.percentage_read.num * st.total_books
                       = st.read_books * 100 * st.percentage_read.den
            /\ st.total_books = 0 =>
                   (st.read_books = 0 /\ st.percentage_read = [num |-> 0, den |-> 1])
            /\ (st.total_books = 2 /\ nread = 1) =>
                   st.percentage_read = [num |-> 50, den |-> 1]

(* statistics of one read and one unread book *)
C5_Witness ==
    /\ op.name = "get_statistics"
    /\ Len(Lib(1)) = 2
    /\ Lib(1)[1].read /\ ~Lib(1)[2].read
    /\ op.stats.read_books = 1

(* C6: a library persisted by save_library and then loaded by a fresh      *)
(* session, the file not changed in between, is the persisted library:     *)
(* the same books with the same title, author, year, genre and read, in    *)
(* the same order.                                                         *)
C6_RoundTrip ==
    [][(op'.name = "run" /\ op'.fresh /\ lastWriter # 0) =>
        /\ session_state'[op'.s].library = saved
        /\ op'.msg = "none"
        /\ op'.exc = "none"]_vars

(* a fresh session has loaded two saved books, one with a non-ASCII title, *)
(* one read and one not                                                    *)
C6_Witness ==
    /\ op.name = "run" /\ op.fresh /\ lastWriter # 0
    /\ Len(Lib(1)) = 2
    /\ Lib(1)[1].title = <<"A", "SIGMA">>
    /\ Lib(1)[1].read /\ ~Lib(1)[2].read
    /\ Lib(1) = saved

(* C7: when an add, or a remove with an index in range, has completed, the *)
(* file holds exactly the session's current library and nothing of its     *)
(* earlier contents; search_book, get_statistics and a failed remove leave *)
(* the file as it was.                                                     *)
C7_FileMirrorsLibrary ==
    [][/\ Mutated(op') =>
            /\ file'.exists
            /\ file'.text = json_dump(session_state'[op'.s].library)
            /\ json_load(file'.text) = [ok |-> TRUE, value |-> session_state'[op'.s].library]
       /\ (op'.name \in {"search_book", "get_statistics"}
           \/ (op'.name = "remove_book" /\ ~op'.ret)) => file' = file]_vars

(* a remove has shortened a file that held two books to the one left *)
C7_Witness ==
    /\ op.name = "remove_book" /\ op.ret
    /\ Len(Lib(1)) = 1
    /\ file = [exists |-> TRUE, text |-> json_dump(Lib(1))]
    /\ Len(file.text) = BookToks + 2

(* C8: a session that starts on a file that exists and does not parse:     *)
(* the load raises nothing and shows the warning, the library is empty and *)
(* stays empty until that session mutates it (a later script run does not  *)
(* read the file again), and the file is left as it is until the first     *)
(* successful mutation, which overwrites it with the mutating session's    *)
(* library.  Stated of every step; before the first step no session has    *)
(* started.                                                                *)
C8_CorruptStorage ==
    [][/\ \A s \in degraded' : session_state'[s].present /\ session_state'[s].library = <<>>
       /\ (op'.name = "run" /\ op'.fresh /\ Unparsable(file)) =>
            /\ op'.exc = "none"
            /\ op'.msg = "Error loading library file. Starting with an empty library."
            /\ session_state'[op'.s].library = <<>>
            /\ op'.s \in degraded'
            /\ file' = file
       /\ \A s \in degraded :
            (s \notin degraded') => (op'.s = s /\ (Mutated(op') \/ op'.name = "close"))
       /\ Unparsable(file) =>
            IF Mutated(op')
            THEN file' = [exists |-> TRUE, text |-> json_dump(session_state'[op'.s].library)]
            ELSE file' = file]_vars

(* a session that started on an unparsable file has run again after the    *)
(* other session overwrote the file with a book: it still has no books     *)
C8_Witness ==
    \E s \in degraded :
        /\ op.name = "run" /\ op.s = s /\ ~op.fresh
        /\ file.exists /\ json_load(file.text).ok
        /\ json_load(file.text).value # <<>>
        /\ Lib(s) = <<>>

(* C9: every book of every session's library has a non-empty title, a      *)
(* non-empty author and a year from 1 to the current year; a form          *)
(* submitted with an empty title or an empty author shows the validation   *)
(* error and changes neither the library nor the file.  Stated of the      *)
(* state after every step; before the first step every library is empty.   *)
C9_ValidBooks ==
    [][/\ \A s \in Sessions : \A i \in 1..Len(session_state'[s].library) :
            LET b == session_state'[s].library[i]
            IN  /\ b.title # <<>>
                /\ b.author # <<>>
                /\ MinYear <= b.year /\ b.year <= now'
       /\ (op'.name = "Add Book" /\ (op'.title = <<>> \/ op'.author = <<>>)) =>
            /\ op'.msg = "Title and author are required!"
            /\ session_state'[op'.s].library = session_state[op'.s].library
            /\ file' = file]_vars

(* a form without a title was refused on a library that holds a book of    *)
(* the current year, which is not the year the model starts in             *)
C9_Witness ==
    /\ op.name = "Add Book" /\ op.title = <<>> /\ op.author # <<>>
    /\ op.msg = "Title and author are required!"
    /\ Len(Lib(1)) >= 1
    /\ now > MinYear
    /\ \E i \in 1..Len(Lib(1)) : Lib(1)[i].year = now

(* C10: with two sessions on one file, the file is the library of the      *)
(* session that made the most recent successful mutation: a save           *)
(* overwrites the whole file and merges nothing, so what the other session *)
(* persisted is gone from it.                                              *)
C10_LastWriterWins ==
    (lastWriter # 0 /\ session_state[lastWriter].present) =>
        /\ file = [exists |-> TRUE, text |-> json_dump(Lib(lastWriter))]
        /\ json_load(file.text) = [ok |-> TRUE, value |-> Lib(lastWriter)]

(* session 1 wrote last, and a book that session 2 holds is not in the file *)
C10_Witness ==
    /\ lastWriter = 1
    /\ session_state[1].present /\ session_state[2].present
    /\ Lib(1) # <<>>
    /\ \E i \in 1..Len(Lib(2)) :
          \A j \in 1..Len(json_load(file.text).value) :
              json_load(file.text).value[j] # Lib(2)[i]

====
